---------------------------- MODULE Spec2Model ----------------------------
(***************************************************************************)
(* A model of the calculator of liborvytlacil/Calculator: the token        *)
(* scanner (tokenStream.h), the variable table (variable.h) and the        *)
(* recursive-descent evaluator with its two drivers, test() and the        *)
(* prompt loop of main() (main.cpp).                                       *)
(*                                                                         *)
(* The evaluator is modelled as a machine with an explicit call stack:     *)
(* one frame per active call of calculation, statement, declaration,       *)
(* expression, term or primary, and one step per stretch of code between   *)
(* two calls.  An exception empties the stack (nothing between the throw   *)
(* and the catch in testStatement / main handles it).                      *)
(*                                                                         *)
(* Numbers.  The code computes in double.  The model computes in exact     *)
(* rationals <<n, d>> (d > 0, lowest terms): rounding and the sign of zero *)
(* are not modelled.  Literals are runs of digits; '.' and exponents are   *)
(* outside the modelled alphabet.                                          *)
(***************************************************************************)
EXTENDS Integers, Sequences, FiniteSets, TLC

(***************************************************************************)
(* Bounds of the exploration.                                              *)
(***************************************************************************)
\* lexemes typed on one prompt line of the multi-line session
MaxLineTokens == 4
\* prompt lines of the multi-line session
MaxLines == 3
\* lexemes typed on the line of the single-line session
MaxTokens == 5
\* lexemes of a line handed to the bare token stream
MaxStreamTokens == 3
\* steps of one call of calculation explored
MaxSteps == 80

(***************************************************************************)
(* double, as an exact rational                                            *)
(***************************************************************************)
Abs(n) == IF n < 0 THEN -n ELSE n

RECURSIVE GCD(_, _)
GCD(a, b) == IF b = 0 THEN a ELSE GCD(b, a % b)

\* n/d in lowest terms.  A zero denominator stands for what double gives
\* for x/0: <<1, 0>> and <<-1, 0>> are the infinities, <<0, 0>> is NaN.
Rat(n, d) ==
    LET s == IF d < 0 THEN -1 ELSE 1
        g == IF n = 0 /\ d = 0 THEN 1 ELSE GCD(Abs(n), Abs(d))
    IN  <<(s * n) \div g, (s * d) \div g>>

Num(n) == <<n, 1>>
Zero == Num(0)

RAdd(a, b) == Rat(a[1] * b[2] + b[1] * a[2], a[2] * b[2])
RSub(a, b) == Rat(a[1] * b[2] - b[1] * a[2], a[2] * b[2])
RMul(a, b) == Rat(a[1] * b[1], a[2] * b[2])
RDiv(a, b) == Rat(a[1] * b[2], a[2] * b[1])
RNeg(a) == <<-a[1], a[2]>>
IsInt(a) == a[2] = 1
NaN == <<0, 0>>

\* the integer part of n/d, rounded toward zero
Trunc(n, d) == IF n < 0 THEN -((-n) \div d) ELSE n \div d

\* a remainder that takes the sign of the divisor: x - floor(x / y) * y
FmodFloored(a, b) ==
    LET q == RDiv(a, b)
    IN  IF a[2] = 0 \/ b[2] = 0 \/ b[1] = 0
        THEN NaN
        ELSE RSub(a, RMul(Num(q[1] \div q[2]), b))

\* fmod(x, y) of <cmath>: x - trunc(x / y) * y, NaN when y is zero
Fmod(a, b) ==
    LET q == RDiv(a, b)
    IN  IF a[2] = 0 \/ b[2] = 0 \/ b[1] = 0
        THEN NaN
        ELSE RSub(a, RMul(Num(Trunc(q[1], q[2])), b))

(***************************************************************************)
(* Characters                                                              *)
(***************************************************************************)
Digits == {"0", "1", "2", "3", "4", "5", "6", "7", "8", "9"}
Letters == {"a", "b", "c", "d", "e", "f", "g", "h", "i", "j", "k", "l", "m",
            "n", "o", "p", "q", "r", "s", "t", "u", "v", "w", "x", "y", "z"}
Space == " "

DigitVal(c) ==
    CASE c = "0" -> 0 [] c = "1" -> 1 [] c = "2" -> 2 [] c = "3" -> 3
      [] c = "4" -> 4 [] c = "5" -> 5 [] c = "6" -> 6 [] c = "7" -> 7
      [] c = "8" -> 8 [] c = "9" -> 9

isalpha(c) == c \in Letters
isdigit(c) == c \in Digits

(***************************************************************************)
(* Token (tokenStream.h)                                                   *)
(***************************************************************************)
TokenType == {"ADD", "SUB", "MUL", "DIV", "MOD", "LPAREN", "RPAREN", "NUMBER",
              "INPUT_EOF", "UNKNOWN", "KW_LET", "EQUALS", "NAME"}

Token(type) == [kind |-> type, value |-> Zero, name |-> ""]
NumberToken(val) == [kind |-> "NUMBER", value |-> val, name |-> ""]
NameToken(name) == [kind |-> "NAME", value |-> Zero, name |-> name]

(***************************************************************************)
(* The input stream: the characters of the line and a read position (the   *)
(* index of the next unread character).                                    *)
(***************************************************************************)
\* operator>>(char&) skips white space: the first index >= p that holds none
RECURSIVE SkipWs(_, _)
SkipWs(chars, p) ==
    IF p <= Len(chars) /\ chars[p] = Space THEN SkipWs(chars, p + 1) ELSE p

\* operator>>(double&): the longest run of digits from p, as [val, pos]
RECURSIVE ReadDouble(_, _, _)
ReadDouble(chars, p, acc) ==
    IF p <= Len(chars) /\ isdigit(chars[p])
    THEN ReadDouble(chars, p + 1, 10 * acc + DigitVal(chars[p]))
    ELSE [val |-> Num(acc), pos |-> p]

\* the loop of readVariableOrKeyword: the longest run of letters and digits
RECURSIVE ReadName(_, _, _)
ReadName(chars, p, name) ==
    IF p <= Len(chars) /\ (isalpha(chars[p]) \/ isdigit(chars[p]))
    THEN ReadName(chars, p + 1, name \o chars[p])
    ELSE [name |-> name, pos |-> p]

readVariableOrKeyword(chars, p) ==
    LET r == ReadName(chars, p + 1, chars[p])
    IN  [tok |-> IF r.name = "let" THEN Token("KW_LET") ELSE NameToken(r.name),
         pos |-> r.pos]

\* TokenStream::doReadNextToken, as [tok, pos]
doReadNextToken(chars, pos) ==
    LET p == SkipWs(chars, pos)
        ch == chars[p]
    IN  IF p > Len(chars)
        THEN [tok |-> Token("INPUT_EOF"), pos |-> Len(chars) + 1]
        ELSE CASE ch = "+" -> [tok |-> Token("ADD"), pos |-> p + 1]
               [] ch = "-" -> [tok |-> Token("SUB"), pos |-> p + 1]
               [] ch = "*" -> [tok |-> Token("MUL"), pos |-> p + 1]
               [] ch = "/" -> [tok |-> Token("DIV"), pos |-> p + 1]
               [] ch = "%" -> [tok |-> Token("MOD"), pos |-> p + 1]
               [] ch = "(" -> [tok |-> Token("LPAREN"), pos |-> p + 1]
               [] ch = ")" -> [tok |-> Token("RPAREN"), pos |-> p + 1]
               [] ch = "=" -> [tok |-> Token("EQUALS"), pos |-> p + 1]
               [] isdigit(ch) ->
                    LET r == ReadDouble(chars, p, 0)
                    IN  [tok |-> NumberToken(r.val), pos |-> r.pos]
               [] OTHER ->
                    IF isalpha(ch)
                    THEN readVariableOrKeyword(chars, p)
                    ELSE [tok |-> Token("UNKNOWN"), pos |-> p + 1]

(***************************************************************************)
(* TokenStream (tokenStream.h).  A stream is [pos, bufferFull, buffer];    *)
(* the characters it reads are passed beside it.                           *)
(***************************************************************************)
\* TokenStream::TokenStream
TokenStream == [pos |-> 1, bufferFull |-> FALSE, buffer |-> Token("INPUT_EOF")]

\* a get that hands out the buffered token and leaves the buffer full
getKeepsBuffer(ts, chars) ==
    IF ts.bufferFull
    THEN [ok |-> TRUE, tok |-> ts.buffer, ts |-> ts]
    ELSE LET nextToken == doReadNextToken(chars, ts.pos)
         IN  [ok |-> nextToken.tok.kind # "UNKNOWN",
              tok |-> nextToken.tok,
              ts |-> [ts EXCEPT !.pos = nextToken.pos]]

\* TokenStream::get, as [ok, tok, ts]; ~ok is the throw of "Unexpected token."
get(ts, chars) ==
    IF ts.bufferFull
    THEN [ok |-> TRUE, tok |-> ts.buffer, ts |-> [ts EXCEPT !.bufferFull = FALSE]]
    ELSE LET nextToken == doReadNextToken(chars, ts.pos)
         IN  [ok |-> nextToken.tok.kind # "UNKNOWN",
              tok |-> nextToken.tok,
              ts |-> [ts EXCEPT !.pos = nextToken.pos]]

\* TokenStream::putback, as [ok, ts]; ~ok is the throw of "Called pushfront
\* with the buffer already full."
putback(ts, token) ==
    IF ts.bufferFull
    THEN [ok |-> FALSE, ts |-> ts]
    ELSE [ok |-> TRUE, ts |-> [ts EXCEPT !.bufferFull = TRUE, !.buffer = token]]

\* the loop of ignore: while (doReadNextToken().kind != INPUT_EOF) { }
RECURSIVE ReadToEof(_, _)
ReadToEof(chars, pos) ==
    LET r == doReadNextToken(chars, pos)
    IN  IF r.tok.kind = "INPUT_EOF" THEN r.pos ELSE ReadToEof(chars, r.pos)

\* TokenStream::ignore
ignore(ts, chars, tokenType) ==
    IF ts.bufferFull /\ ts.buffer.kind = tokenType
    THEN [ts EXCEPT !.bufferFull = FALSE]
    ELSE [ts EXCEPT !.bufferFull = FALSE, !.pos = ReadToEof(chars, ts.pos)]

(***************************************************************************)
(* VarTable (variable.h): a sequence of [name, value], as the vector.      *)
(***************************************************************************)
\* the index of the first variable called name, 0 when there is none
\* (VarTable::getVariable; 0 stands for nullptr)
getVariable(variables, name) ==
    IF \E i \in 1..Len(variables) : variables[i].name = name
    THEN CHOOSE i \in 1..Len(variables) :
            /\ variables[i].name = name
            /\ \A j \in 1..(i - 1) : variables[j].name # name
    ELSE 0

\* VarTable::get, as [ok, value]; ~ok is the throw of "Undefined variable"
VarGet(variables, name) ==
    LET i == getVariable(variables, name)
    IN  IF i = 0
        THEN [ok |-> FALSE, value |-> Zero]
        ELSE [ok |-> TRUE, value |-> variables[i].value]

\* a define that adds a variable whether or not the table has the name
defineAppends(variables, name, value) ==
    Append(variables, [name |-> name, value |-> value])

\* VarTable::define: the table after the call
define(variables, name, value) ==
    LET var == getVariable(variables, name)
    IN  IF var = 0
        THEN Append(variables, [name |-> name, value |-> value])
        ELSE [variables EXCEPT ![var].value = value]

(***************************************************************************)
(* The state of the program                                                *)
(***************************************************************************)
VARIABLES
    where,      \* who runs: "test" (test()), "repl" (the loop of main), "exit"
    test,       \* the statement of test() that runs, 0 when none does
    session,    \* what the prompt is given: [lines, cap, lexemes], the lines
                \* main may still read, and the length and lexemes of a line
    typed,      \* lexemes of the prompt line so far
    chars,      \* the characters of the line (the istringstream)
    closed,     \* no character follows chars
    ts,         \* the TokenStream on chars
    varTable,   \* the VarTable handed to calculation
    stack,      \* the active calls, innermost last
    ret,        \* the value the last call returned
    status,     \* "idle", "running", "returned", "error", "exit"
    err,        \* what() of the exception caught
    result,     \* the value calculation returned
    hist,       \* history of the running call, read by the properties only
    steps,      \* steps the running call has taken, read by the properties only
    api         \* the last call made on a bare TokenStream (its client)

vars == <<where, test, session, typed, chars, closed, ts, varTable,
          stack, ret, status, err, result, hist, steps, api>>

\* what() of the runtime_error thrown
UnexpectedToken == "Unexpected token."
BufferFull == "Called pushfront with the buffer already full."
MissingParen == "Missing a right parenthesis."
ExpectedPrimary == "Expected a primary"
DivisionByZero == "Division by zero"
ExpectedName == "Expected a variable name after 'let' keyword."
UndefinedVariable(name) == "Undefined variable '" \o name \o "'"
MissingEquals(name) == "Missing '=' in a declaration of '" \o name \o "'"

(***************************************************************************)
(* The call stack.  A frame is one active call: the function, the place in *)
(* it, and its locals (left: left / result / expr / value; name: name).    *)
(* mark is history: the tokens consumed when calculation began the         *)
(* iteration of its loop.                                                  *)
(***************************************************************************)
Frame(fn) == [fn |-> fn, pc |-> "start", left |-> Zero, name |-> "", mark |-> 0]

NoOp == [op |-> "none", left |-> Zero, right |-> Zero, res |-> Zero]
NoLookup == [name |-> "", found |-> FALSE]
NoDecl == [name |-> "", value |-> Zero, present |-> FALSE, size |-> 0]

\* the history of a call of calculation that starts on the table vt
\*   toks       tokens doReadNextToken has handed to get
\*   callStore  the table when calculation was called
\*   stmtStore  the table when calculation called statement the last time
\*   stmtMark   the tokens consumed by then
\*   vals       the values the calls of statement returned
\*   op         the last * / % of term: its operands, and its result unless
\*              it threw
\*   lookup     the last name primary looked up, and whether the table had it
\*   decl       the last define: its arguments, whether the name was there,
\*              and the table's size before
\*   defs       {<<name, value>>}: the last value defined for each name
NewHist(vt, defs) ==
    [toks |-> <<>>, callStore |-> vt, stmtStore |-> vt, stmtMark |-> 0,
     vals |-> <<>>, op |-> NoOp, lookup |-> NoLookup, decl |-> NoDecl,
     defs |-> defs]

\* the machine as one record, for the step operators below
Cur ==
    [stack |-> stack, ret |-> ret, ts |-> ts, varTable |-> varTable,
     status |-> status, err |-> err, result |-> result, hist |-> hist]

Becomes(m) ==
    /\ stack' = m.stack
    /\ ret' = m.ret
    /\ ts' = m.ts
    /\ varTable' = m.varTable
    /\ status' = m.status
    /\ err' = m.err
    /\ result' = m.result
    /\ hist' = m.hist

Top(m) == m.stack[Len(m.stack)]

\* a call: the caller's frame is left as f, the callee starts
Call(m, f, fn) ==
    [m EXCEPT !.stack = Append([@ EXCEPT ![Len(@)] = f], Frame(fn))]

\* the caller's frame becomes f (a step within one call)
Goto(m, f) == [m EXCEPT !.stack[Len(m.stack)] = f]

\* return v; the return of calculation ends the run
Return(m, v) ==
    LET rest == SubSeq(m.stack, 1, Len(m.stack) - 1)
    IN  [m EXCEPT !.stack = rest,
                  !.ret = v,
                  !.status = IF rest = <<>> THEN "returned" ELSE @,
                  !.result = IF rest = <<>> THEN v ELSE @]

\* throw runtime_error(msg): caught by the driver, every call is left
Throw(m, msg) == [m EXCEPT !.stack = <<>>, !.status = "error", !.err = msg]

\* ts.get() in the machine, as [ok, tok, m]
MGet(m, cs) ==
    LET g == get(m.ts, cs)
    IN  [ok |-> g.ok,
         tok |-> g.tok,
         m |-> [m EXCEPT !.ts = g.ts,
                         !.hist.toks = IF m.ts.bufferFull THEN @ ELSE Append(@, g.tok)]]

\* ts.putback(token) in the machine: the machine after it, thrown or not
MPutback(m, token) ==
    LET p == putback(m.ts, token)
    IN  IF p.ok THEN [m EXCEPT !.ts = p.ts] ELSE Throw(m, BufferFull)

\* tokens taken from the input and not pushed back
Consumed(m) == Len(m.hist.toks) - (IF m.ts.bufferFull THEN 1 ELSE 0)

(***************************************************************************)
(* The evaluator (main.cpp).  Each operator takes the machine m, whose top *)
(* frame is a call of the function, and the characters cs of the line, and *)
(* gives the machine after the call's next step.                           *)
(***************************************************************************)
\* a primary that pushes the token back and returns 0 where it has to throw
PrimaryDefaultReturns(m, token) ==
    LET p == MPutback(m, token)
    IN  IF p.status = "error" THEN p ELSE Return(p, Zero)

\* primary, default: push the token back and throw
PrimaryDefault(m, token) ==
    LET p == MPutback(m, token)
    IN  IF p.status = "error" THEN p ELSE Throw(p, ExpectedPrimary)

\* a primary that reads a name the table lacks as 0
PrimaryNameZero(m, name) == Return(m, VarGet(m.varTable, name).value)

\* primary, case NAME: varTable.get(token.name)
PrimaryName(m, name) ==
    LET v == VarGet(m.varTable, name)
    IN  IF v.ok THEN Return(m, v.value) ELSE Throw(m, UndefinedVariable(name))

\* the lookup, recorded for the properties
Looked(m, name) ==
    [m EXCEPT !.hist.lookup =
        [name |-> name,
         found |-> \E i \in 1..Len(m.varTable) : m.varTable[i].name = name]]

\* the value primary returns once the primary after a sign has returned v
PrimarySigned(sign, v) == IF sign = "minus" THEN RNeg(v) ELSE v

primary(m, cs) ==
    LET f == Top(m)
        g == MGet(m, cs)
    IN  CASE f.pc = "start" ->
               IF ~g.ok THEN Throw(g.m, UnexpectedToken)
               ELSE CASE g.tok.kind = "ADD" ->
                           Call(g.m, [f EXCEPT !.pc = "plus"], "primary")
                      [] g.tok.kind = "SUB" ->
                           Call(g.m, [f EXCEPT !.pc = "minus"], "primary")
                      [] g.tok.kind = "LPAREN" ->
                           Call(g.m, [f EXCEPT !.pc = "paren"], "expression")
                      [] g.tok.kind = "NUMBER" -> Return(g.m, g.tok.value)
                      [] g.tok.kind = "NAME" ->
                           PrimaryName(Looked(g.m, g.tok.name), g.tok.name)
                      [] OTHER -> PrimaryDefault(g.m, g.tok)
          [] f.pc \in {"plus", "minus"} -> Return(m, PrimarySigned(f.pc, m.ret))
          [] f.pc = "paren" ->
               IF ~g.ok THEN Throw(g.m, UnexpectedToken)
               ELSE IF g.tok.kind # "RPAREN" THEN Throw(g.m, MissingParen)
               ELSE Return(g.m, m.ret)

\* a term that looks for a zero divisor after / only
ZeroDivisorDivOnly(op, right) == op = "DIV" /\ right = Zero

\* term: if (right == 0.0) throw, for / and %
ZeroDivisor(op, right) == op \in {"DIV", "MOD"} /\ right = Zero

\* term: left *= right, left /= right, left = fmod(left, right)
TermFold(op, left, right) ==
    CASE op = "MUL" -> RMul(left, right)
      [] op = "DIV" -> RDiv(left, right)
      [] op = "MOD" -> Fmod(left, right)

\* term, default: push the token back and return left
TermDefault(m, token, left) ==
    LET p == MPutback(m, token)
    IN  IF p.status = "error" THEN p ELSE Return(p, left)

term(m, cs) ==
    LET f == Top(m)
        first == f.pc = "left"
        \* the operation just evaluated, recorded for the properties
        left == IF first THEN m.ret ELSE TermFold(f.pc, f.left, m.ret)
        m1 == IF first THEN m
              ELSE [m EXCEPT !.hist.op =
                       [op |-> f.pc, left |-> f.left, right |-> m.ret,
                        res |-> IF ZeroDivisor(f.pc, m.ret) THEN Zero ELSE left]]
        g == MGet(m1, cs)
    IN  IF f.pc = "start" THEN Call(m, [f EXCEPT !.pc = "left"], "primary")
        ELSE IF ~first /\ ZeroDivisor(f.pc, m.ret) THEN Throw(m1, DivisionByZero)
        ELSE IF ~g.ok THEN Throw(g.m, UnexpectedToken)
        ELSE IF g.tok.kind \in {"MUL", "DIV", "MOD"}
        THEN Call(g.m, [f EXCEPT !.pc = g.tok.kind, !.left = left], "primary")
        ELSE TermDefault(g.m, g.tok, left)

\* an expression that adds where it has to subtract
ExpressionFoldAdds(op, left, right) == RAdd(left, right)

\* expression: left += right, left -= right
ExpressionFold(op, left, right) ==
    CASE op = "ADD" -> RAdd(left, right)
      [] op = "SUB" -> RSub(left, right)

\* expression, default: push the token back and return left
ExpressionDefault(m, token, left) ==
    LET p == MPutback(m, token)
    IN  IF p.status = "error" THEN p ELSE Return(p, left)

expression(m, cs) ==
    LET f == Top(m)
        left == IF f.pc = "left" THEN m.ret ELSE ExpressionFold(f.pc, f.left, m.ret)
        g == MGet(m, cs)
    IN  IF f.pc = "start" THEN Call(m, [f EXCEPT !.pc = "left"], "term")
        ELSE IF ~g.ok THEN Throw(g.m, UnexpectedToken)
        ELSE IF g.tok.kind \in {"ADD", "SUB"}
        THEN Call(g.m, [f EXCEPT !.pc = g.tok.kind, !.left = left], "term")
        ELSE ExpressionDefault(g.m, g.tok, left)

\* a declaration that defines its name, as 0, before it evaluates the value
DeclarationExpressionDefines(m, f) ==
    Call([m EXCEPT !.varTable = define(@, f.name, Zero)],
         [f EXCEPT !.pc = "value"], "expression")

\* declaration, once the name and '=' are read: double value = expression(...)
DeclarationExpression(m, f) == Call(m, [f EXCEPT !.pc = "value"], "expression")

\* declaration, after expression returned value: define and return it
DeclarationDefine(m, name, value) ==
    LET d == [name |-> name, value |-> value,
              present |-> getVariable(m.varTable, name) # 0,
              size |-> Len(m.varTable)]
        m1 == [m EXCEPT !.varTable = define(m.varTable, name, value),
                        !.hist.decl = d,
                        !.hist.defs = {p \in @ : p[1] # name} \cup {<<name, value>>}]
    IN  Return(m1, value)

declaration(m, cs) ==
    LET f == Top(m)
        g == MGet(m, cs)
        p == MPutback(g.m, g.tok)
    IN  CASE f.pc = "start" ->
               IF ~g.ok THEN Throw(g.m, UnexpectedToken)
               ELSE IF g.tok.kind # "NAME"
               THEN (IF p.status = "error" THEN p ELSE Throw(p, ExpectedName))
               ELSE Goto(g.m, [f EXCEPT !.pc = "eq", !.name = g.tok.name])
          [] f.pc = "eq" ->
               IF ~g.ok THEN Throw(g.m, UnexpectedToken)
               ELSE IF g.tok.kind # "EQUALS"
               THEN (IF p.status = "error" THEN p ELSE Throw(p, MissingEquals(f.name)))
               ELSE DeclarationExpression(g.m, f)
          [] f.pc = "value" -> DeclarationDefine(m, f.name, m.ret)

statement(m, cs) ==
    LET f == Top(m)
        g == MGet(m, cs)
        p == MPutback(g.m, g.tok)
    IN  CASE f.pc = "start" ->
               IF ~g.ok THEN Throw(g.m, UnexpectedToken)
               ELSE IF g.tok.kind = "KW_LET"
               THEN Call(g.m, [f EXCEPT !.pc = "let"], "declaration")
               ELSE IF p.status = "error" THEN p
               ELSE Call(p, [f EXCEPT !.pc = "other"], "expression")
          [] f.pc \in {"let", "other"} -> Return(m, m.ret)

\* a calculation that keeps the result it had
CalculationResultKept(result0, value) == result0

\* calculation: result = statement(ts, varTable)
CalculationResult(result0, value) == value

calculation(m, cs) ==
    LET f == Top(m)
        g == MGet(m, cs)
        p == MPutback(g.m, g.tok)
    IN  CASE f.pc \in {"start", "loop"} ->
               IF ~g.ok THEN Throw(g.m, UnexpectedToken)
               ELSE IF g.tok.kind = "INPUT_EOF" THEN Return(g.m, f.left)
               ELSE IF p.status = "error" THEN p
               ELSE Call([p EXCEPT !.hist.stmtStore = m.varTable,
                                   !.hist.stmtMark = Consumed(m)],
                         [f EXCEPT !.pc = "stmt", !.mark = Consumed(m)],
                         "statement")
          [] f.pc = "stmt" ->
               Goto([m EXCEPT !.hist.vals = Append(@, m.ret)],
                    [f EXCEPT !.pc = "loop",
                              !.left = CalculationResult(f.left, m.ret)])

\* whether the next step of the top call starts with ts.get()
NeedsToken(m) ==
    LET f == Top(m)
    IN  CASE f.fn = "calculation" -> f.pc \in {"start", "loop"}
          [] f.fn = "statement" -> f.pc = "start"
          [] f.fn = "declaration" -> f.pc \in {"start", "eq"}
          [] f.fn = "expression" -> f.pc # "start"
          [] f.fn = "term" -> f.pc # "start" /\ ~ZeroDivisor(f.pc, m.ret)
          [] f.fn = "primary" -> f.pc \in {"start", "paren"}

\* whether get can answer: from the buffer, or a lexeme or the end of the
\* line is there to read
CanRead == ts.bufferFull \/ closed \/ SkipWs(chars, ts.pos) <= Len(chars)

(***************************************************************************)
(* The drivers (main.cpp)                                                  *)
(***************************************************************************)
\* the calls of testStatement in test(): the input, character by character,
\* and the expected value
Tests ==
    <<
      \* 2
      [input |-> <<"2">>,
       expected |-> Num(2)],
      \* 1+2
      [input |-> <<"1", "+", "2">>,
       expected |-> Num(3)],
      \* 1-2
      [input |-> <<"1", "-", "2">>,
       expected |-> Num(-1)],
      \* 0+2
      [input |-> <<"0", "+", "2">>,
       expected |-> Num(2)],
      \* 452+1000
      [input |-> <<"4", "5", "2", "+", "1", "0", "0", "0">>,
       expected |-> Num(1452)],
      \* 6*3+2
      [input |-> <<"6", "*", "3", "+", "2">>,
       expected |-> Num(20)],
      \* 2+6*3
      [input |-> <<"2", "+", "6", "*", "3">>,
       expected |-> Num(20)],
      \* 7/3
      [input |-> <<"7", "/", "3">>,
       expected |-> RDiv(Num(7), Num(3))],
      \* 6/3+2
      [input |-> <<"6", "/", "3", "+", "2">>,
       expected |-> Num(4)],
      \* 2+6/3
      [input |-> <<"2", "+", "6", "/", "3">>,
       expected |-> Num(4)],
      \* +1
      [input |-> <<"+", "1">>,
       expected |-> Num(1)],
      \* -1
      [input |-> <<"-", "1">>,
       expected |-> Num(-1)],
      \* -1--1
      [input |-> <<"-", "1", "-", "-", "1">>,
       expected |-> Num(0)],
      \* 8%3
      [input |-> <<"8", "%", "3">>,
       expected |-> Num(2)],
      \* -8%3
      [input |-> <<"-", "8", "%", "3">>,
       expected |-> Num(-2)],
      \* 8%-3
      [input |-> <<"8", "%", "-", "3">>,
       expected |-> Num(2)],
      \* -8%-3
      [input |-> <<"-", "8", "%", "-", "3">>,
       expected |-> Num(-2)],
      \* let x = 3
      [input |-> <<"l", "e", "t", " ", "x", " ", "=", " ", "3">>,
       expected |-> Num(3)],
      \* let x = 2 (x + 2) * 3
      [input |-> <<"l", "e", "t", " ", "x", " ", "=", " ", "2", " ", "(", "x", " ", "+", " ", "2", ")", " ", "*", " ", "3">>,
       expected |-> Num(12)]
    >>

\* what a prompt line is made of: each lexeme is typed with a blank after it
Lexemes ==
    {<<"+">>, <<"-">>, <<"*">>, <<"/">>, <<"%">>, <<"(">>, <<")">>, <<"=">>,
     <<"0">>, <<"2">>, <<"3">>, <<"x">>, <<"y">>, <<"l", "e", "t">>, <<"#">>}

\* the lexemes of the lines of the session of several lines
StoreLexemes ==
    {<<"l", "e", "t">>, <<"x">>, <<"y">>, <<"=">>, <<"0">>, <<"2">>, <<"/">>, <<"#">>}

\* the sessions explored: one line of any lexemes, and several shorter
\* lines of declarations and uses of variables on one table
Sessions ==
    {[lines |-> 1, cap |-> MaxTokens, lexemes |-> Lexemes],
     [lines |-> MaxLines, cap |-> MaxLineTokens, lexemes |-> StoreLexemes]}

NoCall == [call |-> "none", after |-> "none", kind |-> "INPUT_EOF", ok |-> TRUE,
           tok |-> Token("INPUT_EOF"), before |-> <<>>, buffered |-> FALSE]

\* main is entered; test() is about to run
Init ==
    /\ where = "test"
    /\ test = 0
    /\ session \in Sessions
    /\ typed = 0
    /\ chars = <<>>
    /\ closed = TRUE
    /\ ts = TokenStream
    /\ varTable = <<>>
    /\ stack = <<>>
    /\ ret = Zero
    /\ status = "idle"
    /\ err = ""
    /\ result = Zero
    /\ hist = NewHist(<<>>, {})
    /\ steps = 0
    /\ api = NoCall

\* calculation is called on a fresh stream over line cs and on the table vt
StartCalculation(cs, vt, defs) ==
    /\ chars' = cs
    /\ ts' = TokenStream
    /\ varTable' = vt
    /\ stack' = <<Frame("calculation")>>
    /\ ret' = Zero
    /\ status' = "running"
    /\ err' = ""
    /\ result' = Zero
    /\ hist' = NewHist(vt, defs)
    /\ steps' = 0

\* testStatement(input, expected), up to the call of calculation.  Each call
\* has a stream and a table of its own and leaves nothing behind, so the
\* statements of test() are run in any order, any number of times.
testStatement(i) ==
    /\ where = "test"
    /\ status # "running"
    /\ test' = i
    /\ closed' = TRUE
    /\ StartCalculation(Tests[i].input, <<>>, {})
    /\ UNCHANGED <<where, session, typed, api>>

\* testStatement: success, once calculation has returned or thrown
success == status = "returned" /\ result = Tests[test].expected

\* main, after test(): VarTable varTable
EnterRepl ==
    /\ where = "test"
    /\ status # "running"
    /\ where' = "repl"
    /\ test' = 0
    /\ chars' = <<>>
    /\ closed' = TRUE
    /\ ts' = TokenStream
    /\ varTable' = <<>>
    /\ stack' = <<>>
    /\ ret' = Zero
    /\ status' = "idle"
    /\ err' = ""
    /\ result' = Zero
    /\ hist' = NewHist(<<>>, {})
    /\ steps' = 0
    /\ UNCHANGED <<session, typed, api>>

\* main, one turn of while (cin): a line is read and calculation is called
\* on it with main's table.  The line's characters are chosen as the stream
\* reaches them (Type, EndLine): the stream reads strictly left to right, so
\* this explores the same runs as choosing the line at getline.
MainLoop ==
    /\ where = "repl"
    /\ status \in {"idle", "returned", "error"}
    /\ session.lines > 0
    /\ session' = [session EXCEPT !.lines = @ - 1]
    /\ typed' = 0
    /\ closed' = FALSE
    /\ StartCalculation(<<>>, varTable, hist.defs)
    /\ UNCHANGED <<where, test, api>>

\* whether the evaluator waits for the part of the line not chosen yet
AtEndOfTyped ==
    /\ where = "repl"
    /\ status = "running"
    /\ ~closed
    /\ NeedsToken(Cur)
    /\ ~CanRead

\* the line goes on with lexeme l
Type(l) ==
    /\ AtEndOfTyped
    /\ l \in session.lexemes
    /\ typed < session.cap
    /\ typed' = typed + 1
    /\ chars' = chars \o l \o <<Space>>
    /\ UNCHANGED <<where, test, session, closed, ts, varTable, stack, ret,
                   status, err, result, hist, steps, api>>

\* the line ends here
EndLine ==
    /\ AtEndOfTyped
    /\ closed' = TRUE
    /\ UNCHANGED <<where, test, session, typed, chars, ts, varTable, stack,
                   ret, status, err, result, hist, steps, api>>

\* main: the line is "q", or cin has ended; main returns and its objects go
Quit ==
    /\ where = "repl"
    /\ status \in {"idle", "returned", "error"}
    /\ where' = "exit"
    /\ test' = 0
    /\ session' = [session EXCEPT !.lines = 0]
    /\ typed' = 0
    /\ chars' = <<>>
    /\ closed' = TRUE
    /\ ts' = TokenStream
    /\ varTable' = <<>>
    /\ stack' = <<>>
    /\ ret' = Zero
    /\ status' = "exit"
    /\ err' = ""
    /\ result' = Zero
    /\ hist' = NewHist(<<>>, {})
    /\ steps' = 0
    /\ UNCHANGED api

\* the top call is fn and its next step can run
Runs(fn) ==
    /\ where \in {"test", "repl"}
    /\ status = "running"
    /\ Top(Cur).fn = fn
    /\ NeedsToken(Cur) => CanRead
    /\ steps < MaxSteps

Rest == <<where, test, session, typed, chars, closed, api>>

\* one step of the function on top of the stack
Calculation ==
    /\ Runs("calculation")
    /\ Becomes(calculation(Cur, chars))
    /\ steps' = steps + 1
    /\ UNCHANGED Rest

Statement ==
    /\ Runs("statement")
    /\ Becomes(statement(Cur, chars))
    /\ steps' = steps + 1
    /\ UNCHANGED Rest

Declaration ==
    /\ Runs("declaration")
    /\ Becomes(declaration(Cur, chars))
    /\ steps' = steps + 1
    /\ UNCHANGED Rest

Expression ==
    /\ Runs("expression")
    /\ Becomes(expression(Cur, chars))
    /\ steps' = steps + 1
    /\ UNCHANGED Rest

Term ==
    /\ Runs("term")
    /\ Becomes(term(Cur, chars))
    /\ steps' = steps + 1
    /\ UNCHANGED Rest

Primary ==
    /\ Runs("primary")
    /\ Becomes(primary(Cur, chars))
    /\ steps' = steps + 1
    /\ UNCHANGED Rest

Next ==
    \/ \E i \in 1..Len(Tests) : testStatement(i)
    \/ EnterRepl
    \/ MainLoop
    \/ \E l \in Lexemes : Type(l)
    \/ EndLine
    \/ Quit
    \/ Calculation
    \/ Statement
    \/ Declaration
    \/ Expression
    \/ Term
    \/ Primary

Spec == Init /\ [][Next]_vars

(***************************************************************************)
(* A TokenStream with a client of its own (tokenStream.h): the line is     *)
(* whole when the stream is made, and the client calls get, putback and    *)
(* ignore in any order.  api is the last call: what it was, the call       *)
(* before it, the kind last handed to ignore, whether it returned (ok) or  *)
(* threw, the token last got, and `before`, the tokens that were to come   *)
(* when ignore was last called, the first of them buffered or not.         *)
(***************************************************************************)
\* the lexemes of the client's lines
StreamLexemes == {<<"+">>, <<")">>, <<"2">>, <<"x">>, <<"#">>}

\* the kinds the client hands to ignore
IgnoreKinds == {"ADD", "RPAREN", "NUMBER", "NAME"}

\* the lines of n lexemes, each lexeme with a blank after it
RECURSIVE StreamLines(_)
StreamLines(n) ==
    IF n = 0 THEN {<<>>}
    ELSE {cs \o l \o <<Space>> : cs \in StreamLines(n - 1), l \in StreamLexemes}

\* the tokens doReadNextToken gives from pos on, INPUT_EOF the last
RECURSIVE TokensFrom(_, _)
TokensFrom(cs, pos) ==
    LET r == doReadNextToken(cs, pos)
    IN  IF r.tok.kind = "INPUT_EOF" THEN <<r.tok>>
        ELSE <<r.tok>> \o TokensFrom(cs, r.pos)

\* the tokens get would hand out from now on: the buffered one first
Pending == (IF ts.bufferFull THEN <<ts.buffer>> ELSE <<>>) \o TokensFrom(chars, ts.pos)

\* TokenStream ts(input), for a client
InitTS ==
    /\ where = "stream"
    /\ test = 0
    /\ session = [lines |-> 0, cap |-> 0, lexemes |-> {}]
    /\ typed = 0
    /\ chars \in UNION {StreamLines(n) : n \in 0..MaxStreamTokens}
    /\ closed = TRUE
    /\ ts = TokenStream
    /\ varTable = <<>>
    /\ stack = <<>>
    /\ ret = Zero
    /\ status = "idle"
    /\ err = ""
    /\ result = Zero
    /\ hist = NewHist(<<>>, {})
    /\ steps = 0
    /\ api = NoCall

Client == <<where, test, session, typed, chars, closed, varTable, stack, ret,
            status, err, result, hist, steps>>

\* the client calls ts.get()
ClientGet ==
    /\ where = "stream"
    /\ LET g == get(ts, chars)
       IN  /\ ts' = g.ts
           /\ api' = [api EXCEPT !.call = "get", !.after = api.call,
                                 !.ok = g.ok, !.tok = g.tok]
    /\ UNCHANGED Client

\* the client calls ts.putback(token) with the token it got last
ClientPutback ==
    /\ where = "stream"
    /\ api.call # "none"
    /\ LET p == putback(ts, api.tok)
       IN  /\ ts' = p.ts
           /\ api' = [api EXCEPT !.call = "putback", !.after = api.call, !.ok = p.ok]
    /\ UNCHANGED Client

\* the client calls ts.ignore(kind)
ClientIgnore(kind) ==
    /\ where = "stream"
    /\ ts' = ignore(ts, chars, kind)
    /\ api' = [api EXCEPT !.call = "ignore", !.after = api.call, !.kind = kind,
                          !.ok = TRUE, !.before = Pending,
                          !.buffered = ts.bufferFull]
    /\ UNCHANGED Client

NextTS ==
    \/ ClientGet
    \/ ClientPutback
    \/ \E kind \in IgnoreKinds : ClientIgnore(kind)

SpecTS == InitTS /\ [][NextTS]_vars

(***************************************************************************)
(* The grammar of main.cpp's header comment, as a reference evaluation.    *)
(* A sequence of tokens s has, as an Expression, Term or Primary, the set  *)
(* of values of its derivations:                                           *)
(*     Expression -> Expression '+' Term | Expression '-' Term | Term      *)
(*     Term -> Term '*' Primary | Term '/' Primary | Term '%' Primary      *)
(*           | Primary                                                     *)
(*     Primary -> '+' Primary | '-' Primary | Number | <name>              *)
(*              | '(' Expression ')'                                       *)
(* The set is empty when s is not derivable.  RefFail is the value of a    *)
(* derivation that divides by zero or reads a name the store lacks.  The   *)
(* store is a set of <<name, value>>.                                      *)
(***************************************************************************)
RefFail == NaN

RefLookup(store, name) ==
    IF \E p \in store : p[1] = name
    THEN (CHOOSE p \in store : p[1] = name)[2]
    ELSE RefFail

\* the remainder of l by r that takes the sign of l: sign(l) * (|l| mod |r|)
RefRem(l, r) ==
    LET al == <<Abs(l[1]), l[2]>>
        ar == <<Abs(r[1]), r[2]>>
        q == RDiv(al, ar)
        m == RSub(al, RMul(Num(q[1] \div q[2]), ar))
    IN  IF l[1] < 0 THEN RNeg(m) ELSE m

RefBinary(op, l, r) ==
    IF l = RefFail \/ r = RefFail THEN RefFail
    ELSE CASE op = "ADD" -> RAdd(l, r)
           [] op = "SUB" -> RSub(l, r)
           [] op = "MUL" -> RMul(l, r)
           [] op = "DIV" -> IF r = Zero THEN RefFail ELSE RDiv(l, r)
           [] op = "MOD" -> IF r = Zero THEN RefFail ELSE RefRem(l, r)

RECURSIVE RefExpression(_, _), RefTerm(_, _), RefPrimary(_, _)

RefPrimary(s, store) ==
    IF s = <<>> THEN {}
    ELSE CASE s[1].kind = "ADD" -> RefPrimary(Tail(s), store)
           [] s[1].kind = "SUB" ->
                {IF v = RefFail THEN RefFail ELSE RNeg(v) : v \in RefPrimary(Tail(s), store)}
           [] s[1].kind = "NUMBER" -> IF Len(s) = 1 THEN {s[1].value} ELSE {}
           [] s[1].kind = "NAME" ->
                IF Len(s) = 1 THEN {RefLookup(store, s[1].name)} ELSE {}
           [] s[1].kind = "LPAREN" ->
                IF Len(s) >= 3 /\ s[Len(s)].kind = "RPAREN"
                THEN RefExpression(SubSeq(s, 2, Len(s) - 1), store)
                ELSE {}
           [] OTHER -> {}

\* the places where s may split at an operator of ops
RefSplits(s, ops) == {k \in 2..(Len(s) - 1) : s[k].kind \in ops}

\* Term -> Primary | Term op Primary, split at each * / %
RefTerm(s, store) ==
    RefPrimary(s, store) \cup
    UNION {LET rs == RefPrimary(SubSeq(s, k + 1, Len(s)), store)
           IN  IF rs = {} THEN {}
               ELSE {RefBinary(s[k].kind, l, r) :
                        l \in RefTerm(SubSeq(s, 1, k - 1), store), r \in rs} :
           k \in RefSplits(s, {"MUL", "DIV", "MOD"})}

\* Expression -> Term | Expression op Term, split at each + -
RefExpression(s, store) ==
    RefTerm(s, store) \cup
    UNION {LET rs == RefTerm(SubSeq(s, k + 1, Len(s)), store)
           IN  IF rs = {} THEN {}
               ELSE {RefBinary(s[k].kind, l, r) :
                        l \in RefExpression(SubSeq(s, 1, k - 1), store), r \in rs} :
           k \in RefSplits(s, {"ADD", "SUB"})}

(***************************************************************************)
(*     Declaration -> 'let' <name> '=' Expression                          *)
(*     Statement -> Expression | Declaration                               *)
(* as the set of [value, store] of s.                                      *)
(***************************************************************************)
RefDefine(store, name, value) == {p \in store : p[1] # name} \cup {<<name, value>>}

RefStatement(s, store) ==
    IF Len(s) >= 4 /\ s[1].kind = "KW_LET" /\ s[2].kind = "NAME" /\ s[3].kind = "EQUALS"
    THEN {[value |-> v,
           store |-> IF v = RefFail THEN store ELSE RefDefine(store, s[2].name, v)] :
             v \in RefExpression(SubSeq(s, 4, Len(s)), store)}
    ELSE {[value |-> v, store |-> store] : v \in RefExpression(s, store)}

(***************************************************************************)
(*     Calculation -> Calculation Statement                                *)
(* read from the left, each statement the longest one that starts there    *)
(* and run on the store its predecessors left: [ok, value, store], value   *)
(* the value of the last statement (value0 when there is none).            *)
(***************************************************************************)
RECURSIVE RefCalculation(_, _, _)
RefCalculation(s, store, value0) ==
    LET ks == {k \in 1..Len(s) : RefStatement(SubSeq(s, 1, k), store) # {}}
        k == CHOOSE j \in ks : \A i \in ks : i <= j
        r == CHOOSE x \in RefStatement(SubSeq(s, 1, k), store) : TRUE
    IN  IF s = <<>> THEN [ok |-> TRUE, value |-> value0, store |-> store]
        ELSE IF ks = {} \/ r.value = RefFail
        THEN [ok |-> FALSE, value |-> value0, store |-> store]
        ELSE RefCalculation(SubSeq(s, k + 1, Len(s)), r.store, r.value)

\* a table as a store of the reference
StoreOf(variables) ==
    {<<variables[i].name, variables[i].value>> : i \in 1..Len(variables)}

\* the tokens of the line, once calculation has read it to its end
LineTokens == SubSeq(hist.toks, 1, Len(hist.toks) - 1)

\* calculation has returned
Returned ==
    /\ where \in {"test", "repl"}
    /\ status = "returned"

\* calculation has thrown
Thrown ==
    /\ where \in {"test", "repl"}
    /\ status = "error"

Kinds(s) == [i \in 1..Len(s) |-> s[i].kind]

\* The tokens read when calculation threw, made a whole line in the way
\* that yields an expression if any way does: as they are when the end of
\* the line was read; else with a number added where an operand is due,
\* and a ')' for every '(' still open.
RECURSIVE Repeat(_, _)
Repeat(x, n) == IF n <= 0 THEN <<>> ELSE <<x>> \o Repeat(x, n - 1)

Completed(s) ==
    LET open == Cardinality({i \in 1..Len(s) : s[i].kind = "LPAREN"})
                  - Cardinality({i \in 1..Len(s) : s[i].kind = "RPAREN"})
        due == s = <<>> \/ s[Len(s)].kind \in {"ADD", "SUB", "MUL", "DIV", "MOD", "LPAREN"}
    IN  IF s # <<>> /\ s[Len(s)].kind = "INPUT_EOF"
        THEN SubSeq(s, 1, Len(s) - 1)
        ELSE s \o (IF due THEN <<NumberToken(Num(1))>> ELSE <<>>)
               \o Repeat(Token("RPAREN"), open)

(***************************************************************************)
(* C1.  A line that is one well-formed expression without a zero divisor   *)
(* evaluates to the value the grammar gives it, and the grammar gives it   *)
(* one value only: * / % bind tighter than + -, both fold from the left,   *)
(* a leading '-' negates its primary and a leading '+' leaves it as it is. *)
(* The expression statements of test() return what test() expects.         *)
(***************************************************************************)
C1_ExpressionValue ==
    /\ Returned =>
         LET vs == RefExpression(LineTokens, StoreOf(hist.callStore))
         IN  (vs # {} /\ RefFail \notin vs) => vs = {result}
    /\ Thrown =>
         LET vs == RefExpression(Completed(hist.toks), StoreOf(hist.callStore))
         IN  vs = {} \/ RefFail \in vs
    /\ (where = "test" /\ test \in 1..17 /\ status \in {"returned", "error"}) => success

\* 3 - 2 - 2 has returned -1 (not 3)
C1_Witness ==
    /\ Returned
    /\ where = "repl"
    /\ Kinds(LineTokens) = <<"NUMBER", "SUB", "NUMBER", "SUB", "NUMBER">>
    /\ LineTokens[1].value = Num(3)
    /\ LineTokens[3].value = Num(2)
    /\ LineTokens[5].value = Num(2)
    /\ result = Num(-1)

(***************************************************************************)
(* C2.  A line of several statements is evaluated from the left, each      *)
(* statement on the table its predecessors left, and calculation returns   *)
(* the value of the last one; a declaration returns the value it stored.   *)
(* So the value returned and the table left are those of the reference     *)
(* evaluation of the line, and test()'s "let x = 3" returns 3 and its      *)
(* "let x = 2 (x + 2) * 3" returns 12.                                     *)
(***************************************************************************)
C2_StatementsInOrder ==
    /\ Returned =>
         LET r == RefCalculation(LineTokens, StoreOf(hist.callStore), Zero)
         IN  /\ r.ok
             /\ result = r.value
             /\ StoreOf(varTable) = r.store
    /\ (status = "running" /\ Top(Cur).fn = "statement" /\ Top(Cur).pc = "let") =>
         VarGet(varTable, hist.decl.name) = [ok |-> TRUE, value |-> ret]
    /\ (where = "test" /\ test \in {18, 19} /\ status \in {"returned", "error"}) => success

\* let x = 2 x has returned 2: the second statement read the x the first defined
C2_Witness ==
    /\ Returned
    /\ where = "repl"
    /\ Kinds(LineTokens) = <<"KW_LET", "NAME", "EQUALS", "NUMBER", "NAME">>
    /\ LineTokens[2].name = LineTokens[5].name
    /\ Len(hist.vals) = 2
    /\ result = LineTokens[4].value

\* the declaration that statement called has just returned
DeclarationReturned ==
    /\ where \in {"test", "repl"}
    /\ status = "running"
    /\ Top(Cur).fn = "statement"
    /\ Top(Cur).pc = "let"

(***************************************************************************)
(* C3.  Whatever declarations the lines of a session have made on main's   *)
(* table: no name is in the table twice, get gives for every name the      *)
(* value of its last define and fails for every other name, and a define   *)
(* of a name the table holds leaves the table's size as it was (a define   *)
(* of a new name adds one).                                                *)
(***************************************************************************)
C3_StoreNamesUnique ==
    /\ \A i, j \in 1..Len(varTable) :
         varTable[i].name = varTable[j].name => i = j
    /\ \A p \in hist.defs : VarGet(varTable, p[1]) = [ok |-> TRUE, value |-> p[2]]
    /\ \A i \in 1..Len(varTable) : \E p \in hist.defs : p[1] = varTable[i].name
    /\ DeclarationReturned =>
         Len(varTable) = hist.decl.size + (IF hist.decl.present THEN 0 ELSE 1)

\* a later line has given a new value to one of two variables of the table
C3_Witness ==
    /\ DeclarationReturned
    /\ where = "repl"
    /\ hist.decl.present
    /\ Len(varTable) = 2
    /\ hist.callStore # varTable
    /\ VarGet(hist.callStore, hist.decl.name).value # hist.decl.value

(***************************************************************************)
(* C4.  Once the right operand of a / or % has evaluated to zero, the call *)
(* of calculation has thrown "Division by zero" (and so returned nothing), *)
(* whatever the left operand is.                                           *)
(***************************************************************************)
C4_DivisionByZeroFails ==
    (hist.op.op \in {"DIV", "MOD"} /\ hist.op.right = Zero) =>
        /\ status = "error"
        /\ err = DivisionByZero
        /\ stack = <<>>

\* zero divided by a variable that holds zero
C4_Witness ==
    /\ Thrown
    /\ err = DivisionByZero
    /\ hist.op.left = Zero
    /\ hist.op.right = Zero
    /\ hist.toks[Len(hist.toks)].kind = "NAME"

(***************************************************************************)
(* C5.  When calculation throws, no call is left active (the statements    *)
(* after the one that threw are not evaluated), and the table is the one   *)
(* the statements that had returned left: the table as it was when the     *)
(* statement that threw was called, which is the table the reference       *)
(* evaluation gives for the tokens those statements consumed.  So earlier  *)
(* declarations stay, and a declaration that throws defines nothing.  The  *)
(* statement that throws is the one being evaluated: an error at the token *)
(* a statement reads ahead, past its own end, is that statement's.         *)
(***************************************************************************)
C5_FailureKeepsEarlierStore ==
    Thrown =>
        /\ stack = <<>>
        /\ varTable = hist.stmtStore
        /\ LET r == RefCalculation(SubSeq(hist.toks, 1, hist.stmtMark),
                                   StoreOf(hist.callStore), Zero)
           IN  r.ok /\ r.store = StoreOf(varTable)

\* the second statement threw and the declaration before it is kept
C5_Witness ==
    /\ Thrown
    /\ Len(hist.vals) = 1
    /\ hist.decl.name # ""
    /\ varTable # hist.callStore
    /\ hist.stmtMark = 4

(***************************************************************************)
(* C6, as claimed.  A name read while the table lacks it makes calculation *)
(* throw "Undefined variable", and the table after the call is the table   *)
(* before the call.                                                        *)
(***************************************************************************)
C6_AsClaimed ==
    /\ (hist.lookup.name # "" /\ ~hist.lookup.found) =>
         status = "error" /\ err = UndefinedVariable(hist.lookup.name)
    /\ (Thrown /\ err = UndefinedVariable(hist.lookup.name)) =>
         varTable = hist.callStore

(***************************************************************************)
(* C6, amended.  A name read while the table lacks it makes calculation    *)
(* throw "Undefined variable", and the table after the call is the table   *)
(* as it was when the statement that read the name was called: the         *)
(* declarations that earlier statements of the same line made are kept,    *)
(* and the table is the one before the call when there are none.           *)
(***************************************************************************)
C6_UndefinedVariableFails ==
    /\ (hist.lookup.name # "" /\ ~hist.lookup.found) =>
         status = "error" /\ err = UndefinedVariable(hist.lookup.name)
    /\ (Thrown /\ err = UndefinedVariable(hist.lookup.name)) =>
         /\ varTable = hist.stmtStore
         /\ hist.decl.name = "" => varTable = hist.callStore

\* an undefined name was read after a declaration of the same line
C6_Witness ==
    /\ Thrown
    /\ err = UndefinedVariable(hist.lookup.name)
    /\ hist.lookup.name # ""
    /\ hist.decl.name # ""
    /\ varTable # hist.callStore

(***************************************************************************)
(* C7.  For integers a and b, b not zero, a % b is the remainder of the    *)
(* division that truncates: an integer r with a = q * b + r for an integer *)
(* q, |r| < |b|, and r zero or of the sign of a.  The four % statements of *)
(* test() return 2, -2, 2, -2.                                             *)
(***************************************************************************)
C7_ModuloTruncates ==
    /\ (hist.op.op = "MOD" /\ IsInt(hist.op.left) /\ IsInt(hist.op.right)
            /\ hist.op.right # Zero) =>
         LET a == hist.op.left[1]
             b == hist.op.right[1]
             r == hist.op.res[1]
         IN  /\ IsInt(hist.op.res)
             /\ Abs(r) < Abs(b)
             /\ r * a >= 0
             /\ \E q \in (-Abs(a))..Abs(a) : a = q * b + r
    /\ (where = "test" /\ test \in 14..17 /\ status \in {"returned", "error"}) => success

\* -3 % 2 has given -1
C7_Witness ==
    /\ where = "repl"
    /\ hist.op = [op |-> "MOD", left |-> Num(-3), right |-> Num(2), res |-> Num(-1)]

(***************************************************************************)
(* C8.  No run of calculation, on any line, calls putback while the buffer *)
(* is full: calculation never throws "Called pushfront with the buffer     *)
(* already full."                                                          *)
(***************************************************************************)
C8_PutbackFindsBufferEmpty ==
    where \in {"test", "repl"} => err # BufferFull

\* primary has pushed a token back and thrown
C8_Witness ==
    /\ Thrown
    /\ where = "repl"
    /\ err = ExpectedPrimary
    /\ ts.bufferFull
    /\ ts.buffer.kind = "RPAREN"
    /\ Len(hist.toks) > 1

(***************************************************************************)
(* C9.  Every call of calculation ends, by a return or by a throw.  Each   *)
(* turn of its loop that called statement has consumed a token by the time *)
(* statement returns; the stream hands out no more tokens than the line    *)
(* has characters, and EndOfInput once; the call takes at most nine steps  *)
(* for each token handed out (a statement of one token takes nine: two of  *)
(* calculation, statement, expression and term, one of primary); and a     *)
(* running call always has a next step.  Hence a call that keeps stepping  *)
(* (WF on Step) leaves "running".                                          *)
(***************************************************************************)
StatementReturned ==
    /\ where \in {"test", "repl"}
    /\ status = "running"
    /\ Top(Cur).fn = "calculation"
    /\ Top(Cur).pc = "stmt"

\* the running call can take a step, or waits for the rest of its line
CanStep == Runs(Top(Cur).fn) \/ AtEndOfTyped

C9_CalculationEnds ==
    /\ [](StatementReturned => Consumed(Cur) > Top(Cur).mark)
    /\ [](Len(hist.toks) <= Len(chars) + 1)
    /\ [](steps <= 9 * Len(hist.toks))
    /\ [](status = "running" => CanStep)
    /\ (status = "running") ~> (status # "running")

\* the loop has gone round twice, a token or more each time
C9_Witness ==
    /\ StatementReturned
    /\ Len(hist.vals) = 1
    /\ Top(Cur).mark > 0
    /\ Consumed(Cur) > Top(Cur).mark

(***************************************************************************)
(* C10.  The get that follows ignore(kind) returns the token after the     *)
(* first token of that kind among those that were to come (the buffered    *)
(* one first), and INPUT_EOF when there was none.  The code does not: when *)
(* the buffer does not hold a token of the kind, ignore reads to the end   *)
(* of the input and compares no kind on the way.                           *)
(***************************************************************************)
\* the token due after the first token of the kind in s
AfterFirst(s, kind) ==
    LET is == {i \in 1..Len(s) : s[i].kind = kind}
        i == CHOOSE j \in is : \A k \in is : j <= k
    IN  IF is = {} THEN Token("INPUT_EOF") ELSE s[i + 1]

C10_IgnoreStops ==
    (where = "stream" /\ api.call = "get" /\ api.after = "ignore") =>
        api.tok = AfterFirst(api.before, api.kind)

\* what ignore does: the get after it returns the token after the buffered
\* one when that was of the kind, and INPUT_EOF in every other case
IgnoreAsCoded ==
    (where = "stream" /\ api.call = "get" /\ api.after = "ignore") =>
        api.tok = IF api.buffered /\ api.before[1].kind = api.kind
                  THEN api.before[2] ELSE Token("INPUT_EOF")

\* the call that runs takes its next step: main calls calculation with the
\* whole line read, and nothing else runs
Step == status = "running" /\ steps' = steps + 1

SpecLive == Init /\ [][Next]_vars /\ WF_steps(Step)

=============================================================================
